---------------------------- MODULE Spec2Model ----------------------------
(* npy2mat: batch conversion of .npy array files into .mat files.           *)
(* Two programs of the repository are modelled: the package                  *)
(* src/npy2mat (main.py, processing.py, utils.py), whose Convert button      *)
(* calls process(values), and the single-file program src/npy2mat.py,        *)
(* whose Convert button calls Npy2Mat.handle_conversions(values).            *)
(* Strings are sequences of one-character strings; a path is the pair        *)
(* <<directory, file name>> (os.path.join of a directory and a name that     *)
(* holds no separator).                                                      *)
EXTENDS Naturals, Sequences, FiniteSets

VARIABLES
    fs,         \* the file system: directory -> sequence of entries, in listing order
    pc,         \* "Idle", "process" (loop of process) or "convert_files" (loop of Npy2Mat.convert_files)
    prog,       \* the program of the current or last batch: "process" or "Npy2Mat"
    npy_dir,    \* values["-NPY_DIR-"] of the current or last batch
    mat_dir,    \* values["-MAT_DIR-"] of the current or last batch
    filenames,  \* the listing the batch iterates over
    idx,        \* number of listed files the loop has handled
    npy_data,   \* the loop's local holding the last decoded value
    log,        \* logger records and popups of the current or last batch
    calls,      \* the validate / load / savemat calls of the current or last batch
    hist,       \* <<>>, or the record of the last completed batch
    names,      \* input of the pure-function specification: a list of file names
    ext,        \* input of the pure-function specification: the target type
    res         \* results the pure-function specification computed for names and ext

vars == <<fs, pc, prog, npy_dir, mat_dir, filenames, idx, npy_data, log, calls,
          hist, names, ext, res>>

batchVars == <<fs, pc, prog, npy_dir, mat_dir, filenames, idx, npy_data, log,
               calls, hist>>

pureVars == <<names, ext, res>>

-----------------------------------------------------------------------------
(* Bounds *)

\* largest number of entries the source directory holds initially
MaxFiles == 2

\* largest number of pieces a file name of the pure-function specification is made of
MaxPieces == 2

\* longest list of names of the pure-function specification
MaxList == 2

-----------------------------------------------------------------------------
(* Strings *)

DOT_NPY == <<".", "n", "p", "y">>

DOT_NPY_UPPER == <<".", "N", "P", "Y">>

DOT_MAT == <<".", "m", "a", "t">>

\* str.endswith
EndsWith(s, suffix) ==
    /\ Len(suffix) <= Len(s)
    /\ SubSeq(s, Len(s) - Len(suffix) + 1, Len(s)) = suffix

\* index of the last "." of p, 0 when there is none (str.rfind, 1-based)
LastDot(p) ==
    IF \E i \in 1..Len(p) : p[i] = "."
    THEN CHOOSE i \in 1..Len(p) :
            /\ p[i] = "."
            /\ \A j \in (i + 1)..Len(p) : p[j] # "."
    ELSE 0

\* os.path.splitext of a name without a directory separator, stripping at the
\* first "." (the mutant of splitext used for destination-name disjointness)
splitext_first_dot(p) ==
    IF \E i \in 1..Len(p) : p[i] = "."
    THEN LET d == CHOOSE i \in 1..Len(p) :
                     /\ p[i] = "."
                     /\ \A j \in 1..(i - 1) : p[j] # "."
         IN [root |-> SubSeq(p, 1, d - 1), ext |-> SubSeq(p, d, Len(p))]
    ELSE [root |-> p, ext |-> <<>>]

\* os.path.splitext of a name without a directory separator: the extension
\* starts at the last ".", unless only dots precede it (leading dots belong
\* to the root)
splitext(p) ==
    LET d == LastDot(p)
    IN IF d > 0 /\ \E k \in 1..(d - 1) : p[k] # "."
       THEN [root |-> SubSeq(p, 1, d - 1), ext |-> SubSeq(p, d, Len(p))]
       ELSE [root |-> p, ext |-> <<>>]

-----------------------------------------------------------------------------
(* File system *)

\* directories the user can browse to: "src" and "dst" exist and are writable,
\* "ro" exists, is empty and is not writable, "gone" does not exist
ExistingDirs == {"src", "dst", "ro"}

Writable(d) == d \in {"src", "dst"}

\* file names the source directory may hold initially: "a.npy", "a.mat" (not
\* of the expected type, and the destination name of "a.npy"), ".npy" and
\* ".npy.npy"
NameUniverse ==
    { <<"a">> \o DOT_NPY, <<"a">> \o DOT_MAT, DOT_NPY, DOT_NPY \o DOT_NPY }

\* what an entry of the source directory may be: a well-formed .npy container
\* holding a float64 array ("f8") or a structured array with a field name of
\* more than 31 characters ("struct"), bytes that are no .npy container, or a
\* subdirectory
InitKinds == {"f8", "struct", "junk", "dir"}

InitEntry(n, k) ==
    IF k = "dir" THEN [name |-> n, kind |-> "dir", data |-> [fmt |-> "dir"]]
    ELSE IF k = "junk" THEN [name |-> n, kind |-> "file", data |-> [fmt |-> "junk"]]
    ELSE [name |-> n, kind |-> "file",
          data |-> [fmt |-> "npy", arr |-> [dtype |-> k, id |-> n]]]

\* the value a failed load leaves in place of an array (None)
NoData == [none |-> TRUE]

IsArray(x) == "dtype" \in DOMAIN x

NoExc == "none"

\* position of name n in the sequence of entries es, 0 when absent
Find(es, n) ==
    IF \E i \in 1..Len(es) : es[i].name = n
    THEN CHOOSE i \in 1..Len(es) : es[i].name = n
    ELSE 0

\* os.listdir(path): the names of the directory in its listing order, or an
\* OSError when the directory does not exist
listdir(fsys, path) ==
    IF path \in DOMAIN fsys
    THEN [exc |-> NoExc, val |-> [i \in 1..Len(fsys[path]) |-> fsys[path][i].name]]
    ELSE [exc |-> "FileNotFoundError", val |-> <<>>]

\* os.path.isfile(os.path.join(path, f))
isfile(fsys, path, f) ==
    /\ path \in DOMAIN fsys
    /\ Find(fsys[path], f) # 0
    /\ fsys[path][Find(fsys[path], f)].kind = "file"

\* the names among ns that are regular files of directory path, in order
\* (the comprehension [f for f in os.listdir(path) if os.path.isfile(...)])
RECURSIVE files_only(_, _, _)
files_only(fsys, path, ns) ==
    IF ns = <<>> THEN <<>>
    ELSE IF isfile(fsys, path, Head(ns))
    THEN <<Head(ns)>> \o files_only(fsys, path, Tail(ns))
    ELSE files_only(fsys, path, Tail(ns))

\* np.load(path): the array of a well-formed .npy container, an exception for
\* a missing file or any other content
np_load(fsys, path) ==
    LET d == path[1]
        i == IF d \in DOMAIN fsys THEN Find(fsys[d], path[2]) ELSE 0
    IN IF i # 0 /\ fsys[d][i].kind = "file" /\ fsys[d][i].data.fmt = "npy"
       THEN [exc |-> NoExc, val |-> fsys[d][i].data.arr]
       ELSE [exc |-> "load error", val |-> NoData]

\* the arrays scipy.io.savemat can write: it raises ValueError for a structured
\* array with a field name of more than 31 characters
Representable(data) == IsArray(data) /\ data.dtype = "f8"

\* the file system with file n of directory d holding content c: an existing
\* entry keeps its place in the listing, a new one is listed last
WriteFile(fsys, d, n, c) ==
    LET i == Find(fsys[d], n)
        e == [name |-> n, kind |-> "file", data |-> c]
    IN IF i = 0 THEN [fsys EXCEPT ![d] = Append(@, e)]
       ELSE [fsys EXCEPT ![d][i] = e]

\* savemat opening the destination for appending instead of truncating it
\* (the mutant of savemat used for idempotence)
savemat_append(fsys, path, data) ==
    LET d == path[1]
        n == path[2]
        i == IF d \in DOMAIN fsys THEN Find(fsys[d], n) ELSE 0
        old == IF i # 0 /\ fsys[d][i].kind = "file" /\ fsys[d][i].data.fmt = "mat"
               THEN fsys[d][i].data.vars ELSE <<>>
    IN IF d \notin DOMAIN fsys \/ ~Writable(d) \/ (i # 0 /\ fsys[d][i].kind = "dir")
       THEN [fs |-> fsys, exc |-> "OSError", opened |-> FALSE]
       ELSE IF Representable(data)
       THEN [fs |-> WriteFile(fsys, d, n,
                       [fmt |-> "mat", vars |-> Append(old, [key |-> "data", val |-> data])]),
             exc |-> NoExc, opened |-> TRUE]
       ELSE [fs |-> WriteFile(fsys, d, n, [fmt |-> "mat", vars |-> old]),
             exc |-> "write error", opened |-> TRUE]

\* scipy.io.savemat(path, {"data": data}): opens the destination with mode
\* "wb" (an OSError when the directory is missing or not writable, or the name
\* is a directory; nothing is created then), writes the header and then the
\* one entry "data"; a value it cannot represent raises after the file was
\* created or truncated, and leaves a container without entry behind
savemat(fsys, path, data) ==
    LET d == path[1]
        n == path[2]
        i == IF d \in DOMAIN fsys THEN Find(fsys[d], n) ELSE 0
    IN IF d \notin DOMAIN fsys \/ ~Writable(d) \/ (i # 0 /\ fsys[d][i].kind = "dir")
       THEN [fs |-> fsys, exc |-> "OSError", opened |-> FALSE]
       ELSE IF Representable(data)
       THEN [fs |-> WriteFile(fsys, d, n,
                       [fmt |-> "mat", vars |-> <<[key |-> "data", val |-> data]>>]),
             exc |-> NoExc, opened |-> TRUE]
       ELSE [fs |-> WriteFile(fsys, d, n, [fmt |-> "mat", vars |-> <<>>]),
             exc |-> "write error", opened |-> TRUE]

\* a logger record or popup; file is the position in the listing of the file
\* being handled, 0 for a record of the batch
Rec(file, msg) == [file |-> file, msg |-> msg]


-----------------------------------------------------------------------------
(* src/npy2mat/utils.py and src/npy2mat/processing.py *)

valid_file_type == DOT_NPY

\* validate_file_type (its result; validate_log is what it logs)
validate_file_type(filename, target_type) == EndsWith(filename, target_type)

\* the record validate_file_type logs
validate_log(i, ok) ==
    IF ok THEN <<Rec(i, "Valid file type")>>
    ELSE <<Rec(i, "Invalid file type. Jumping to next file...")>>

\* filenames_in_dir that swallows the listing error without a record (the
\* mutant of filenames_in_dir)
filenames_in_dir_silent(fsys, path) ==
    LET l == listdir(fsys, path)
    IN IF l.exc = NoExc
       THEN [val |-> files_only(fsys, path, l.val),
             log |-> <<Rec(0, "Reading files from"), Rec(0, "Found file(s)")>>]
       ELSE [val |-> <<>>, log |-> <<Rec(0, "Reading files from")>>]

filenames_in_dir(fsys, path) ==
    LET l == listdir(fsys, path)
    IN IF l.exc = NoExc
       THEN [val |-> files_only(fsys, path, l.val),
             log |-> <<Rec(0, "Reading files from"), Rec(0, "Found file(s)")>>]
       ELSE [val |-> <<>>,
             log |-> <<Rec(0, "Reading files from"),
                       Rec(0, "Error reading directory. Returning empty list")>>]

\* gen_filepaths cutting the name at its first "." (the mutant of _gen_filepaths)
gen_filepaths_first_dot(npy_dir_, npy_filename, mat_dir_) ==
    [npy |-> <<npy_dir_, npy_filename>>,
     mat |-> <<mat_dir_, splitext_first_dot(npy_filename).root \o DOT_MAT>>]

\* _gen_filepaths
gen_filepaths(npy_dir_, npy_filename, mat_dir_) ==
    [npy |-> <<npy_dir_, npy_filename>>,
     mat |-> <<mat_dir_, splitext(npy_filename).root \o DOT_MAT>>]

\* NumpyFileLoader(npy_filepath).load_file(): the array, or NoData when the
\* file cannot be decoded (load_data.py is not among the sources; the decoder
\* is modelled from the specification's DecodeFailed outcome and from the
\* "Data is not a numpy array" branch of save_data_as_mat)
load_file(fsys, npy_filepath) ==
    LET r == np_load(fsys, npy_filepath)
    IN IF r.exc = NoExc THEN r.val ELSE NoData

SaveCall(i, filepath, data, r) ==
    [op |-> "savemat", file |-> i, path |-> filepath, data |-> data,
     ok |-> r.exc = NoExc, opened |-> r.opened]

\* save_data_as_mat without the isinstance check (the mutant of
\* save_data_as_mat for decode-failure isolation)
save_data_as_mat_unchecked(data, filepath, fsys, i) ==
    LET r == savemat(fsys, filepath, data)
    IN [fs |-> r.fs,
        log |-> <<Rec(i, "Saving file as .mat file"),
                  IF r.exc = NoExc THEN Rec(i, "Saved successfully")
                  ELSE Rec(i, "Error when saving as .mat file")>>,
        calls |-> <<SaveCall(i, filepath, data, r)>>]

\* save_data_as_mat whose except branch logs nothing (the mutant of
\* save_data_as_mat for encode-failure accounting)
save_data_as_mat_quiet(data, filepath, fsys, i) ==
    IF IsArray(data)
    THEN LET r == savemat(fsys, filepath, data)
         IN [fs |-> r.fs,
             log |-> <<Rec(i, "Saving file as .mat file")>> \o
                     (IF r.exc = NoExc THEN <<Rec(i, "Saved successfully")>> ELSE <<>>),
             calls |-> <<SaveCall(i, filepath, data, r)>>]
    ELSE [fs |-> fsys,
          log |-> <<Rec(i, "Data is not a numpy array. Cannot save as .mat file. Jumping to next file...")>>,
          calls |-> <<>>]

\* save_data_as_mat(data, filepath) on file system fsys, for listed file i:
\* the file system it leaves, what it logs, the savemat call it makes
save_data_as_mat(data, filepath, fsys, i) ==
    IF IsArray(data)
    THEN LET r == savemat(fsys, filepath, data)
         IN [fs |-> r.fs,
             log |-> <<Rec(i, "Saving file as .mat file"),
                       IF r.exc = NoExc THEN Rec(i, "Saved successfully")
                       ELSE Rec(i, "Error when saving as .mat file")>>,
             calls |-> <<SaveCall(i, filepath, data, r)>>]
    ELSE [fs |-> fsys,
          log |-> <<Rec(i, "Data is not a numpy array. Cannot save as .mat file. Jumping to next file...")>>,
          calls |-> <<>>]

\* the binding of npy_data that keeps the earlier array when the load gave
\* none (the mutant of bind_npy_data)
bind_npy_data_keep(previous, loaded) ==
    IF IsArray(loaded) THEN loaded ELSE previous

\* npy_data = NumpyFileLoader(npy_filepath).load_file(): the local is rebound
\* to what this iteration loaded
bind_npy_data(previous, loaded) == loaded

\* the regular files of directory d, each with its content
DirFiles(fsys, d) ==
    IF d \in DOMAIN fsys
    THEN { [name |-> fsys[d][i].name, data |-> fsys[d][i].data] :
             i \in { k \in 1..Len(fsys[d]) : fsys[d][k].kind = "file" } }
    ELSE {}

\* the record of a batch that ends now, h being the record of the batch before
\* it (<<>> when there was none): repeat says that the batch before was run by
\* the same program on the same directories, before holds the files its
\* destination directory held when that batch ended
Completed(h, p, nd, md, fsys) ==
    LET rep == /\ h # <<>>
               /\ h[1].prog = p
               /\ h[1].npy_dir = nd
               /\ h[1].mat_dir = md
    IN << [prog |-> p, npy_dir |-> nd, mat_dir |-> md,
           dest |-> DirFiles(fsys, md),
           repeat |-> rep,
           before |-> IF rep THEN h[1].dest ELSE {}] >>

\* process(values) up to its loop: the listing and _intro
ProcessStart(nd, md) ==
    /\ pc = "Idle"
    /\ LET l == filenames_in_dir(fs, nd)
       IN /\ filenames' = l.val
          /\ log' = l.log \o <<Rec(0, "Valid file type is"), Rec(0, "Iterating over files...")>>
    /\ prog' = "process"
    /\ npy_dir' = nd
    /\ mat_dir' = md
    /\ idx' = 0
    /\ npy_data' = NoData
    /\ calls' = <<>>
    /\ pc' = "process"
    /\ UNCHANGED <<fs, hist, names, ext, res>>

\* one iteration of the loop of process
ProcessFile ==
    /\ pc = "process"
    /\ idx < Len(filenames)
    /\ LET i == idx + 1
           filename == filenames[i]
           ok == validate_file_type(filename, valid_file_type)
           head == <<Rec(i, "Processing file")>> \o validate_log(i, ok)
           vcall == [op |-> "validate", file |-> i, ok |-> ok]
       IN IF ok
          THEN LET p == gen_filepaths(npy_dir, filename, mat_dir)
                   data == bind_npy_data(npy_data, load_file(fs, p.npy))
                   s == save_data_as_mat(data, p.mat, fs, i)
                   lcall == [op |-> "load", file |-> i, path |-> p.npy,
                             ok |-> IsArray(load_file(fs, p.npy))]
               IN /\ fs' = s.fs
                  /\ npy_data' = data
                  /\ log' = log \o head \o s.log
                  /\ calls' = calls \o <<vcall, lcall>> \o s.calls
          ELSE /\ log' = log \o head
               /\ calls' = Append(calls, vcall)
               /\ UNCHANGED <<fs, npy_data>>
    /\ idx' = idx + 1
    /\ UNCHANGED <<pc, prog, npy_dir, mat_dir, filenames, hist, names, ext, res>>

\* the end of process: _outro, and the return to the event loop
ProcessOutro ==
    /\ pc = "process"
    /\ idx = Len(filenames)
    /\ log' = log \o <<Rec(0, "All files processed!"), Rec(0, "Files saved to")>>
    /\ hist' = Completed(hist, prog, npy_dir, mat_dir, fs)
    /\ pc' = "Idle"
    /\ UNCHANGED <<fs, prog, npy_dir, mat_dir, filenames, idx, npy_data, calls,
                   names, ext, res>>


-----------------------------------------------------------------------------
(* src/npy2mat.py: class Npy2Mat *)

Str(s) == [type |-> "str", v |-> s]

List(l) == [type |-> "list", v |-> l]

\* check_file_type that answers for the first name of a list only (the
\* mutant of Npy2Mat.check_file_type)
check_file_type_first(filename, target_type) ==
    IF filename.type = "str" /\ ~EndsWith(filename.v, target_type) THEN FALSE
    ELSE IF /\ filename.type = "list"
            /\ Len(filename.v) > 0
            /\ ~EndsWith(filename.v[1], target_type) THEN FALSE
    ELSE TRUE

\* Npy2Mat.check_file_type(filename, target_type), filename a str or a list
check_file_type(filename, target_type) ==
    IF filename.type = "str" /\ ~EndsWith(filename.v, target_type) THEN FALSE
    ELSE IF /\ filename.type = "list"
            /\ \E k \in 1..Len(filename.v) : ~EndsWith(filename.v[k], target_type) THEN FALSE
    ELSE TRUE

\* Npy2Mat.validate_file_types
validate_file_types(fnames, target_type) ==
    IF check_file_type(List(fnames), target_type)
    THEN [val |-> TRUE, log |-> <<Rec(0, "Found files to convert")>>]
    ELSE [val |-> FALSE, log |-> <<>>]

\* Npy2Mat.filenames_in_dir
Npy2Mat_filenames_in_dir(fsys, path) ==
    LET l == listdir(fsys, path)
    IN IF l.exc = NoExc
       THEN [val |-> files_only(fsys, path, l.val), log |-> <<>>]
       ELSE [val |-> <<>>,
             log |-> <<Rec(0, "popup: Error reading directory"),
                       Rec(0, "Error reading directory")>>]

\* Npy2Mat.load_npy_file: np.load, any exception raised again as ValueError
load_npy_file(fsys, npy_file) ==
    LET r == np_load(fsys, npy_file)
    IN IF r.exc = NoExc THEN r
       ELSE [exc |-> "Failed to load npy file", val |-> NoData]

\* Npy2Mat.save_mat_file: savemat, any exception raised again as ValueError
save_mat_file(fsys, data, mat_file) ==
    LET r == savemat(fsys, mat_file, data)
    IN IF r.exc = NoExc THEN r
       ELSE [fs |-> r.fs, exc |-> "Failed to save mat file", opened |-> r.opened]

\* Npy2Mat.convert_npy_to_mat(npy_file, mat_file) on file system fsys, for
\* listed file i
convert_npy_to_mat(fsys, npy_file, mat_file, i) ==
    LET l == load_npy_file(fsys, npy_file)
        lcall == [op |-> "load", file |-> i, path |-> npy_file, ok |-> l.exc = NoExc]
    IN IF l.exc # NoExc
       THEN [fs |-> fsys, data |-> NoData,
             log |-> <<Rec(i, "popup: Error during converion"),
                       Rec(i, "Error during conversion: Failed to load npy file")>>,
             calls |-> <<lcall>>]
       ELSE LET r == save_mat_file(fsys, l.val, mat_file)
            IN [fs |-> r.fs, data |-> l.val,
                log |-> IF r.exc = NoExc THEN <<Rec(i, "Converted")>>
                        ELSE <<Rec(i, "popup: Error during converion"),
                               Rec(i, "Error during conversion: Failed to save mat file")>>,
                calls |-> <<lcall, SaveCall(i, mat_file, l.val, r)>>]

\* Npy2Mat.handle_conversions up to the loop of convert_files: the listing
\* and the check of every listed name; one name of another type ends the
\* batch with show_invalid_file_type_error
HandleConversions(nd, md) ==
    /\ pc = "Idle"
    /\ LET l == Npy2Mat_filenames_in_dir(fs, nd)
           v == validate_file_types(l.val, DOT_NPY)
       IN /\ filenames' = l.val
          /\ calls' = <<[op |-> "validate_all", file |-> 0, ok |-> v.val]>>
          /\ IF v.val
             THEN /\ log' = l.log \o v.log
                  /\ pc' = "convert_files"
                  /\ hist' = hist
             ELSE /\ log' = l.log \o
                            <<Rec(0, "popup: Invalid file type: .npy files required"),
                              Rec(0, "Invalid file type: .npy files required")>>
                  /\ pc' = "Idle"
                  /\ hist' = Completed(hist, "Npy2Mat", nd, md, fs)
    /\ prog' = "Npy2Mat"
    /\ npy_dir' = nd
    /\ mat_dir' = md
    /\ idx' = 0
    /\ npy_data' = NoData
    /\ UNCHANGED <<fs, names, ext, res>>

\* one iteration of the loop of Npy2Mat.convert_files
ConvertNpyToMat ==
    /\ pc = "convert_files"
    /\ idx < Len(filenames)
    /\ LET i == idx + 1
           npy_file == filenames[i]
           mat_file == <<mat_dir, splitext(npy_file).root \o DOT_MAT>>
           c == convert_npy_to_mat(fs, <<npy_dir, npy_file>>, mat_file, i)
       IN /\ fs' = c.fs
          /\ npy_data' = c.data
          /\ log' = log \o c.log
          /\ calls' = calls \o c.calls
    /\ idx' = idx + 1
    /\ UNCHANGED <<pc, prog, npy_dir, mat_dir, filenames, hist, names, ext, res>>

\* the end of Npy2Mat.convert_files: the popup, and the return to the event loop
ConvertFilesDone ==
    /\ pc = "convert_files"
    /\ idx = Len(filenames)
    /\ log' = Append(log, Rec(0, "popup: Conversion successful!"))
    /\ hist' = Completed(hist, prog, npy_dir, mat_dir, fs)
    /\ pc' = "Idle"
    /\ UNCHANGED <<fs, prog, npy_dir, mat_dir, filenames, idx, npy_data, calls,
                   names, ext, res>>

-----------------------------------------------------------------------------
(* The batch specification: a file system, and Convert pressed in either    *)
(* program with any pair of directories                                     *)

\* sequences of at most n distinct entries over NameUniverse and InitKinds
RECURSIVE InitListings(_)
InitListings(n) ==
    IF n = 0 THEN { <<>> }
    ELSE LET shorter == InitListings(n - 1)
         IN shorter \cup
            { Append(es, InitEntry(nm, k)) :
                es \in { x \in shorter : Len(x) = n - 1 },
                nm \in NameUniverse, k \in InitKinds }

DistinctNames(es) ==
    \A i, j \in 1..Len(es) : i # j => es[i].name # es[j].name

SourceDirs == {"src", "gone"}

DestDirs == {"src", "dst", "ro"}

Init ==
    /\ fs \in { [d \in ExistingDirs |-> IF d = "src" THEN es ELSE <<>>] :
                  es \in { x \in InitListings(MaxFiles) : DistinctNames(x) } }
    /\ pc = "Idle"
    /\ prog = "process"
    /\ npy_dir = "src"
    /\ mat_dir = "dst"
    /\ filenames = <<>>
    /\ idx = 0
    /\ npy_data = NoData
    /\ log = <<>>
    /\ calls = <<>>
    /\ hist = <<>>
    /\ names = <<>>
    /\ ext = DOT_NPY
    /\ res = [list |-> TRUE, each |-> <<>>, validate |-> <<>>, dest |-> <<>>]

Next ==
    \/ \E nd \in SourceDirs, md \in DestDirs : ProcessStart(nd, md)
    \/ ProcessFile
    \/ ProcessOutro
    \/ \E nd \in SourceDirs, md \in DestDirs : HandleConversions(nd, md)
    \/ ConvertNpyToMat
    \/ ConvertFilesDone

Spec == Init /\ [][Next]_vars

-----------------------------------------------------------------------------
(* The pure-function specification: check_file_type, validate_file_type and *)
(* _gen_filepaths applied to lists of names built from pieces               *)

Pieces == { <<".">>, <<"a">>, DOT_NPY, DOT_NPY_UPPER }

ExtSet == { DOT_NPY, DOT_NPY_UPPER }

RECURSIVE Flatten(_)
Flatten(ps) == IF ps = <<>> THEN <<>> ELSE Head(ps) \o Flatten(Tail(ps))

\* the names made of at most MaxPieces pieces
NameSet ==
    { Flatten(ps) : ps \in UNION { [1..k -> Pieces] : k \in 0..MaxPieces } }

\* what the three functions answer for the list ns and the target type e
Answers(ns, e) ==
    [list     |-> check_file_type(List(ns), e),
     each     |-> [i \in 1..Len(ns) |-> check_file_type(Str(ns[i]), e)],
     validate |-> [i \in 1..Len(ns) |-> validate_file_type(ns[i], e)],
     dest     |-> [i \in 1..Len(ns) |-> gen_filepaths("src", ns[i], "dst").mat]]

PureInit ==
    /\ fs = [d \in ExistingDirs |-> <<>>]
    /\ pc = "Idle"
    /\ prog = "process"
    /\ npy_dir = "src"
    /\ mat_dir = "dst"
    /\ filenames = <<>>
    /\ idx = 0
    /\ npy_data = NoData
    /\ log = <<>>
    /\ calls = <<>>
    /\ hist = <<>>
    /\ names = <<>>
    /\ ext \in ExtSet
    /\ res = Answers(<<>>, ext)

\* one more name is listed, and the functions are applied to the list
AddName(n) ==
    /\ Len(names) < MaxList
    /\ names' = Append(names, n)
    /\ res' = Answers(names', ext)
    /\ UNCHANGED <<batchVars, ext>>

PureNext == \E n \in NameSet : AddName(n)

PureSpec == PureInit /\ [][PureNext]_vars

-----------------------------------------------------------------------------
(* Reading a batch off its calls and its log *)

\* a batch has run to its end, and no other has started since
Done == pc = "Idle" /\ hist # <<>>

\* a batch has started
Started == pc # "Idle" \/ hist # <<>>

Listed == 1..Len(filenames)

CallsOf(op, i) == { k \in 1..Len(calls) : calls[k].op = op /\ calls[k].file = i }

LoadOk(i) == \E k \in CallsOf("load", i) : calls[k].ok

LoadFailed(i) == \E k \in CallsOf("load", i) : ~calls[k].ok

SaveOk(i) == \E k \in CallsOf("savemat", i) : calls[k].ok

\* the outcome a record of the log states
OutcomeOf(msg) ==
    IF msg \in {"Saved successfully", "Converted"} THEN "Converted"
    ELSE IF msg = "Invalid file type. Jumping to next file..." THEN "SkippedWrongType"
    ELSE IF msg \in {"Data is not a numpy array. Cannot save as .mat file. Jumping to next file...",
                     "Error during conversion: Failed to load npy file"} THEN "DecodeFailed"
    ELSE IF msg \in {"Error when saving as .mat file",
                     "Error during conversion: Failed to save mat file"} THEN "EncodeFailed"
    ELSE "none"

\* the positions of the log that state an outcome of listed file i
OutcomeRecs(i) ==
    { k \in 1..Len(log) : log[k].file = i /\ OutcomeOf(log[k].msg) # "none" }

HasOutcome(i, o) == \E k \in OutcomeRecs(i) : OutcomeOf(log[k].msg) = o

\* listed file j was validated (alone, or with the whole listing), decoded
\* if valid and encoded if decoded, and has one outcome
Handled(j) ==
    /\ CallsOf("validate", j) # {} \/ CallsOf("validate_all", 0) # {}
    /\ EndsWith(filenames[j], DOT_NPY) => CallsOf("load", j) # {}
    /\ LoadOk(j) => CallsOf("savemat", j) # {}
    /\ Cardinality(OutcomeRecs(j)) = 1

\* the destination paths the batch created or rewrote
Produced ==
    { calls[k].path :
        k \in { x \in 1..Len(calls) : calls[x].op = "savemat" /\ calls[x].opened } }

\* the listed files the batch validated, decoded and encoded
ConvertedFiles == { i \in Listed : SaveOk(i) }

ListingError(msg) ==
    msg \in {"Error reading directory. Returning empty list", "Error reading directory"}

Summary(msg) == msg \in {"All files processed!", "popup: Conversion successful!"}

-----------------------------------------------------------------------------
(* Claims *)

\* C1: decode error isolation. In a batch run to its end, a listed file whose
\* decode failed had no encode attempted, and every other listed file was
\* validated, decoded if valid, encoded if decoded, and has one outcome; at
\* no moment of a batch is there an encode call for a file whose decode failed.
C1_DecodeErrorIsolation ==
    /\ \A i \in Listed : LoadFailed(i) => CallsOf("savemat", i) = {}
    /\ Done =>
         \A i \in Listed : LoadFailed(i) =>
            /\ HasOutcome(i, "DecodeFailed")
            /\ \A j \in Listed \ {i} : Handled(j)

\* a batch of process run to its end whose first file failed to decode and
\* whose second file was converted
C1_Witness ==
    /\ Done
    /\ prog = "process"
    /\ Len(filenames) >= 2
    /\ LoadFailed(1)
    /\ SaveOk(2)

\* C2: per-file wrong-type skip. In a batch run to its end, every listed file
\* whose name does not end with ".npy" has a skip recorded, no decode and no
\* encode call and no destination file, skips are recorded for such files
\* only, and every other listed file was handled.
C2_WrongTypeSkip ==
    Done =>
      \A i \in Listed :
        /\ HasOutcome(i, "SkippedWrongType") <=> ~EndsWith(filenames[i], DOT_NPY)
        /\ ~EndsWith(filenames[i], DOT_NPY) =>
             /\ CallsOf("load", i) = {}
             /\ CallsOf("savemat", i) = {}
             /\ \A j \in Listed \ {i} : Handled(j)

\* C3: destination-set invariant. The destination files a batch created or
\* rewrote are exactly the destinations of the files it validated, decoded
\* and encoded, one for each, and a failed encode left no file behind.
C3_DestinationSet ==
    /\ Produced =
         { gen_filepaths(npy_dir, filenames[i], mat_dir).mat : i \in ConvertedFiles }
    /\ Cardinality(Produced) = Cardinality(ConvertedFiles)
    /\ \A k \in 1..Len(calls) :
         (calls[k].op = "savemat" /\ ~calls[k].ok) => ~calls[k].opened

\* C4: listing failure. When the source directory cannot be listed, the
\* listing is empty, no listed file is validated, decoded or encoded, the
\* only step left is the summary, the batch run to its end has logged its
\* summary, and the log holds the record of the listing error; a batch whose
\* listing succeeded (an empty directory included) holds no such record.
C4_ListingFailure ==
    Started =>
      /\ npy_dir \notin DOMAIN fs =>
           /\ filenames = <<>>
           /\ idx = 0
           /\ \A k \in 1..Len(calls) : calls[k].file = 0
           /\ \E k \in 1..Len(log) : ListingError(log[k].msg)
           /\ pc # "Idle" => idx = Len(filenames)
           /\ Done => \E k \in 1..Len(log) : Summary(log[k].msg)
      /\ npy_dir \in DOMAIN fs =>
           \A k \in 1..Len(log) : ~ListingError(log[k].msg)

\* a batch run to its end whose source directory could not be listed
C4_Witness ==
    /\ Done
    /\ npy_dir \notin DOMAIN fs
    /\ \E k \in 1..Len(log) : Summary(log[k].msg)

\* C5: totality. In a batch run to its end every listed file has exactly one
\* outcome among Converted, SkippedWrongType, DecodeFailed and EncodeFailed,
\* and every step was taken once.
C5_ExactlyOneOutcome ==
    Done =>
      \A i \in Listed :
        /\ Cardinality(OutcomeRecs(i)) = 1
        /\ Cardinality(CallsOf("load", i)) <= 1
        /\ Cardinality(CallsOf("savemat", i)) <= 1

\* C6: encode failure accounting. With a destination directory that is not
\* writable, every file that was decoded has the one outcome EncodeFailed,
\* the batch goes on to the files after it, and the batch run to its end
\* holds as many records of a failed encode as files were decoded.
C6_EncodeFailureAccounting ==
    ~Writable(mat_dir) =>
      /\ \A i \in Listed : LoadOk(i) =>
            /\ HasOutcome(i, "EncodeFailed")
            /\ Cardinality(OutcomeRecs(i)) = 1
      /\ \A i \in Listed : i <= idx /\ EndsWith(filenames[i], DOT_NPY) =>
            CallsOf("load", i) # {}
      /\ Cardinality({ k \in 1..Len(log) : OutcomeOf(log[k].msg) = "EncodeFailed" })
           = Cardinality({ i \in Listed : LoadOk(i) })
      /\ Produced = {}

\* a batch run to its end into the read-only directory, with two files decoded
C6_Witness ==
    /\ Done
    /\ ~Writable(mat_dir)
    /\ Len(filenames) >= 2
    /\ LoadOk(1)
    /\ LoadOk(2)
    /\ HasOutcome(2, "EncodeFailed")

C9_PayloadOwnership ==
    /\ \A k, l \in 1..Len(calls) : k < l => calls[k].file <= calls[l].file
    /\ \A k \in 1..Len(calls) : calls[k].file <= idx
    /\ \A k \in 1..Len(calls) : calls[k].op = "savemat" =>
         LET i == calls[k].file
             src == <<npy_dir, filenames[i]>>
         IN /\ k > 1
            /\ calls[k - 1].op = "load"
            /\ calls[k - 1].file = i
            /\ calls[k - 1].ok
            /\ calls[k - 1].path = src
            /\ calls[k].data = np_load(fs, src).val
            /\ calls[k].data.id = filenames[i]
            /\ calls[k].path = gen_filepaths(npy_dir, filenames[i], mat_dir).mat

\* a batch run to its end that converted its first file and failed to decode
\* its second
C9_Witness ==
    /\ Done
    /\ Len(filenames) >= 2
    /\ SaveOk(1)
    /\ LoadFailed(2)
    /\ prog = "process"

\* C8: type validation. check_file_type of a list is the conjunction of
\* check_file_type of its members (true for the empty list), check_file_type
\* of a name is validate_file_type of it, and both say whether the name is
\* some prefix followed by the target type, character for character.
C8_ValidationEquivalence ==
    /\ res.list = (\A i \in 1..Len(names) : res.each[i])
    /\ \A i \in 1..Len(names) : res.each[i] = res.validate[i]
    /\ \A i \in 1..Len(names) :
         res.validate[i] =
           (\E k \in 0..Len(names[i]) : names[i] = SubSeq(names[i], 1, k) \o ext)

\* a list whose first name has the target type and whose second has it in
\* the other case only
C8_Witness ==
    /\ Len(names) = 2
    /\ ext = DOT_NPY
    /\ names[1] = <<"a">> \o DOT_NPY
    /\ names[2] = <<"a">> \o DOT_NPY_UPPER
    /\ res.each[1]
    /\ ~res.each[2]
    /\ ~res.list

\* both names pass the ".npy" validation of the batch and differ
ValidPair(i, j) ==
    /\ names[i] # names[j]
    /\ validate_file_type(names[i], valid_file_type)
    /\ validate_file_type(names[j], valid_file_type)

\* n is zero or more dots followed by ".npy"
DotStemmed(n) ==
    /\ EndsWith(n, DOT_NPY)
    /\ \A k \in 1..(Len(n) - Len(DOT_NPY)) : n[k] = "."

\* C10 as stated: any two distinct names that pass the ".npy" validation have
\* distinct destination paths.
C10_DestinationInjective ==
    \A i, j \in 1..Len(names) : ValidPair(i, j) => res.dest[i] # res.dest[j]

\* C10 as amended: two distinct names that pass the ".npy" validation have
\* distinct destination paths unless one is zero or more dots followed by
\* ".npy" and the other is that name followed by ".npy".
C10_DestinationInjectiveExceptDotStems ==
    \A i, j \in 1..Len(names) :
        ( /\ ValidPair(i, j)
          /\ ~(DotStemmed(names[i]) /\ names[j] = names[i] \o DOT_NPY)
          /\ ~(DotStemmed(names[j]) /\ names[i] = names[j] \o DOT_NPY) )
        => res.dest[i] # res.dest[j]

\* two distinct valid names that begin with a dot and are no such pair, with
\* their destinations computed
C10_Witness ==
    /\ Len(names) = 2
    /\ ValidPair(1, 2)
    /\ DotStemmed(names[1])
    /\ names[2][1] = "."
    /\ names[2] # names[1] \o DOT_NPY
    /\ names[1] # names[2] \o DOT_NPY
    /\ res.dest[1] # res.dest[2]

=============================================================================
